---------------------------- MODULE Spec2Model ----------------------------
(***************************************************************************)
(* The eBird Life List Optimizer (src/app/page.tsx): the pipeline          *)
(* fetchHotspots -> processAllHotspots -> life list -> recommendations,    *)
(* and its recommendation engine calculateRecommendations with the         *)
(* haversine helper calculateDistance.                                     *)
(*                                                                         *)
(* JavaScript numbers are modelled exactly, not as floats:                 *)
(*   - a coordinate is an integer number of thousandths of a degree;       *)
(*   - calculateDistance is computed in fixed point and returns a whole    *)
(*     number of hundredths of a kilometre;                                *)
(*   - every other number is a record [tag, num, den, rad] standing for    *)
(*     (num / den) / sqrt(rad / 100), or for Infinity, -Infinity or NaN.   *)
(* toFixed rounds the exact value, a tie going to the larger digit string  *)
(* (the ECMAScript rule); the binary representation error of doubles is    *)
(* not modelled.                                                           *)
(***************************************************************************)
EXTENDS Integers, Sequences, FiniteSets, TLC

VARIABLES apiKey, stage, hotspots, speciesData, userLifeList,
          recommendations, loading, error, pc, results, idx,
          args, returned

\* args and returned are the arguments and the value of a helper applied on
\* its own; the component's handlers leave them alone
vars == <<apiKey, stage, hotspots, speciesData, userLifeList,
          recommendations, loading, error, pc, results, idx,
          args, returned>>

---------------------------------------------------------------------------
(* Bounds of the model. *)

\* longest hotspot list the API returns
MaxHotspots == 2
\* most species in one species-frequency table
MaxSpecies == 6
\* largest totalChecklists of a drawn summary
MaxTotal == 3
\* most observation records the API returns for one hotspot
MaxObs == 2

---------------------------------------------------------------------------
(* JavaScript numbers. *)

\* hundredths of a kilometre in a kilometre: the unit of rad
DistScale == 10 * 10

Fin(n, d) == [tag |-> "fin", num |-> n, den |-> d, rad |-> DistScale]
Infinity == [tag |-> "inf", num |-> 1, den |-> 1, rad |-> DistScale]
NegInfinity == [tag |-> "ninf", num |-> -1, den |-> 1, rad |-> DistScale]
NaN == [tag |-> "nan", num |-> 0, den |-> 1, rad |-> DistScale]
Zero == Fin(0, 1)

\* integer division rounding toward zero, so that Quot(-a, b) = -Quot(a, b)
Quot(a, b) == IF a >= 0 THEN a \div b ELSE -((-a) \div b)

RECURSIVE IsqrtSearch(_, _, _)
IsqrtSearch(x, lo, hi) ==
  IF lo = hi THEN lo
  ELSE LET mid == (lo + hi + 1) \div 2
       IN IF mid * mid <= x THEN IsqrtSearch(x, mid, hi)
          ELSE IsqrtSearch(x, lo, mid - 1)

\* Math.sqrt on a natural number: the largest r with r * r <= x
Isqrt(x) == IsqrtSearch(x, 0, 46340)

Pow10(k) == IF k = 0 THEN 1 ELSE IF k = 1 THEN 10 ELSE 100

\* count / total of two integers >= 0 (x / 0 is Infinity, 0 / 0 is NaN)
Divide(count, total) ==
  IF total = 0 THEN (IF count = 0 THEN NaN ELSE Infinity)
  ELSE Fin(count, total)

\* a + b of two numbers >= 0 with rad = DistScale
Plus(a, b) ==
  IF a.tag = "nan" \/ b.tag = "nan" THEN NaN
  ELSE IF a.tag = "inf" \/ b.tag = "inf" THEN Infinity
  ELSE IF a.den = b.den THEN Fin(a.num + b.num, a.den)
  ELSE Fin(a.num * b.den + b.num * a.den, a.den * b.den)

\* a - b of two numbers with rad = DistScale
Minus(a, b) ==
  IF a.tag = "nan" \/ b.tag = "nan" THEN NaN
  ELSE IF a.tag = "fin" /\ b.tag = "fin"
       THEN Fin(a.num * b.den - b.num * a.den, a.den * b.den)
  ELSE IF a.tag = b.tag THEN NaN
  ELSE IF a.tag = "inf" \/ b.tag = "ninf" THEN Infinity
  ELSE NegInfinity

\* a faulty variant of x * 100: the factor left out
TimesOne(x) == x

\* x * 100
Times100(x) == IF x.tag = "fin" THEN [x EXCEPT !.num = 100 * @] ELSE x

\* x > 0
Positive(x) == x.tag = "inf" \/ (x.tag = "fin" /\ x.num > 0)

\* e / Math.sqrt(d) for a distance d > 0 (d = Fin(hundredths of km, DistScale))
DivSqrt(e, d) == IF e.tag = "fin" THEN [e EXCEPT !.rad = d.num] ELSE e

\* x.toFixed(k) for x >= 0: the digit string, as the integer n it spells
\* (n / 10^k), or "Infinity" / "NaN"
toFixed(x, k) ==
  IF x.tag # "fin" THEN [tag |-> x.tag, n |-> 0, digits |-> k]
  ELSE [tag |-> "fin", digits |-> k,
        n |-> IF x.rad = DistScale
              THEN ((2 * Pow10(k) * x.num) \div x.den + 1) \div 2
              ELSE (Isqrt(((2 * Pow10(k) * x.num) * (2 * Pow10(k) * x.num) * DistScale)
                          \div (x.den * x.den * x.rad)) + 1) \div 2]

\* parseFloat of a string toFixed made (the implicit string-to-number
\* conversion of part_000's b.score - a.score gives the same number)
parseFloat(s) == IF s.tag = "fin" THEN Fin(s.n, Pow10(s.digits))
                 ELSE IF s.tag = "inf" THEN Infinity
                 ELSE IF s.tag = "ninf" THEN NegInfinity ELSE NaN

\* Array.prototype.sort(comparefn), a stable sort: After(a, b) is
\* comparefn(a, b) > 0, "a is placed after b".  Insertion into the sorted
\* prefix, each element going behind the last one that is not after it.
ArraySort(arr, After(_, _)) ==
  LET Insert(sorted, x) ==
        LET p == CHOOSE q \in 0..Len(sorted) :
                   /\ \A i \in (q + 1)..Len(sorted) : After(sorted[i], x)
                   /\ q > 0 => ~After(sorted[q], x)
        IN SubSeq(sorted, 1, p) \o <<x>> \o SubSeq(sorted, p + 1, Len(sorted))
      ins[i \in 0..Len(arr)] ==
        IF i = 0 THEN <<>> ELSE Insert(ins[i - 1], arr[i])
  IN ins[Len(arr)]

\* Array.prototype.slice(0, n)
Slice(arr, n) == SubSeq(arr, 1, IF Len(arr) < n THEN Len(arr) ELSE n)

---------------------------------------------------------------------------
(* calculateDistance: the haversine formula in fixed point, for points up   *)
(* to 50 km apart.  Angles and sines are in units of 10^-7, cosines in      *)
(* ten-thousandths, a in units of 10^-14.  The result is within 20 m of the *)
(* floating-point value.                                                    *)

\* deg * (Math.PI / 180), deg in thousandths of a degree
toRad(deg) == Quot(deg * 17453, 100)

\* Math.sin: x - x^3 / 6 (angles below 0.005 rad)
Sin(x) == x - Quot(Quot(x * x, 10000000) * x, 60000000)

\* Math.cos: 1 - x^2/2 + x^4/24 - x^6/720 + x^8/40320, by Horner's rule
Cos(x) ==
  LET y == Quot(Quot(x, 1000) * Quot(x, 1000), 10000)
      u4 == 10000 - Quot(y, 56)
      u3 == 10000 - Quot(Quot(y * u4, 10000), 30)
      u2 == 10000 - Quot(Quot(y * u3, 10000), 12)
  IN 10000 - Quot(Quot(y * u2, 10000), 2)

\* Math.atan2(y, x) for x > 0: atan(t) = t - t^3 / 3 with t = y / x
Atan2(y, x) ==
  LET t == Quot(y * 10000, x)
  IN t - Quot(Quot(t * t, 10000000) * t, 30000000)

\* a faulty variant: the cosine of the first latitude taken twice
calculateDistanceOneCosine(lat1, lon1, lat2, lon2) ==
  LET R == 6371
      dLat == toRad(lat2 - lat1)
      dLon == toRad(lon2 - lon1)
      a == Sin(Quot(dLat, 2)) * Sin(Quot(dLat, 2))
           + Quot(Quot(Cos(toRad(lat1)) * Cos(toRad(lat1)), 10000)
                    * Sin(Quot(dLon, 2)), 10000) * Sin(Quot(dLon, 2))
      c == 2 * Atan2(Isqrt(a), Isqrt(100000000 - Quot(a, 1000000)))
  IN Fin(Quot(R * c, 100000), DistScale)

\* a faulty variant: the two cosines left out
calculateDistanceFlat(lat1, lon1, lat2, lon2) ==
  LET R == 6371
      dLat == toRad(lat2 - lat1)
      dLon == toRad(lon2 - lon1)
      a == Sin(Quot(dLat, 2)) * Sin(Quot(dLat, 2))
           + Sin(Quot(dLon, 2)) * Sin(Quot(dLon, 2))
      c == 2 * Atan2(Isqrt(a), Isqrt(100000000 - Quot(a, 1000000)))
  IN Fin(Quot(R * c, 100000), DistScale)

calculateDistance(lat1, lon1, lat2, lon2) ==
  LET R == 6371
      dLat == toRad(lat2 - lat1)
      dLon == toRad(lon2 - lon1)
      a == Sin(Quot(dLat, 2)) * Sin(Quot(dLat, 2))
           + Quot(Quot(Cos(toRad(lat1)) * Cos(toRad(lat2)), 10000)
                    * Sin(Quot(dLon, 2)), 10000) * Sin(Quot(dLon, 2))
      c == 2 * Atan2(Isqrt(a), Isqrt(100000000 - Quot(a, 1000000)))
  IN Fin(Quot(R * c, 100000), DistScale)

CHICAGO_WEST == [lat |-> 41940, lng |-> -87670, radius |-> 20]

---------------------------------------------------------------------------
(* The data the external API hands over. *)

\* species codes, in the order a drawn table lists them
SpeciesCodes ==
  <<"norcad", "amerob", "blujay", "mallar3", "houspa", "snoowl1", "rocpig",
    "killde">>

\* obs.comName of a species code
CommonName(code) ==
  CASE code = "norcad" -> "Northern Cardinal"
    [] code = "amerob" -> "American Robin"
    [] code = "blujay" -> "Blue Jay"
    [] code = "mallar3" -> "Mallard"
    [] code = "houspa" -> "House Sparrow"
    [] code = "snoowl1" -> "Snowy Owl"
    [] code = "rocpig" -> "Rock Pigeon"
    [] code = "killde" -> "Killdeer"

\* the codes of COMMON_CHICAGO_BIRDS the model keeps: the only codes the
\* species stage lets the user toggle
COMMON_CHICAGO_BIRDS == {"norcad", "blujay"}

\* the hotspots the API knows: the center itself (0 km), one 0.55 km away,
\* location B of the end-to-end scenario (8.83 km) and the far point of the
\* distance fixture (9.39 km)
ApiHotspots ==
  { [locId |-> "L0", lat |-> 41940, lng |-> -87670],
    [locId |-> "LN", lat |-> 41944, lng |-> -87666],
    [locId |-> "LB", lat |-> 42000, lng |-> -87600],
    [locId |-> "LF", lat |-> 41880, lng |-> -87750] }

LocIds == {h.locId : h \in ApiHotspots}

\* a response of the hotspot endpoint: distinct hotspots in any order
ApiResponses ==
  UNION { {r \in [1..n -> ApiHotspots] :
             \A i, j \in 1..n : i # j => r[i].locId # r[j].locId}
          : n \in 0..MaxHotspots }

Null == [null |-> TRUE]
NoError == "null"
NoResults == [id \in {} |-> Null]

---------------------------------------------------------------------------
(* fetchHotspots: the stored list carries each hotspot's distance and is    *)
(* sorted by it.                                                            *)

WithDistance(h) ==
  [locId |-> h.locId, lat |-> h.lat, lng |-> h.lng,
   distance |-> calculateDistance(CHICAGO_WEST.lat, CHICAGO_WEST.lng, h.lat, h.lng)]

\* a faulty variant of the comparator: farthest first
DistanceBefore(a, b) == Positive(Minus(b.distance, a.distance))

DistanceAfter(a, b) == Positive(Minus(a.distance, b.distance))

hotspotsWithDistance(response) ==
  ArraySort([i \in 1..Len(response) |-> WithDistance(response[i])], DistanceAfter)

---------------------------------------------------------------------------
(* fetchHotspotSpecies: the species-frequency table of a list of            *)
(* observation records, in insertion order of the codes.                    *)

\* a faulty variant of the tally: the count of a code set on its first
\* record and not incremented afterwards
speciesFrequencyFirstOnly(observations) ==
  LET Tally(table, obs) ==
        IF \E j \in 1..Len(table) : table[j].code = obs.speciesCode
        THEN table
        ELSE Append(table, [code |-> obs.speciesCode,
                            commonName |-> obs.comName, count |-> 1])
      acc[i \in 0..Len(observations)] ==
        IF i = 0 THEN <<>> ELSE Tally(acc[i - 1], observations[i])
  IN acc[Len(observations)]

speciesFrequency(observations) ==
  LET Tally(table, obs) ==
        IF \E j \in 1..Len(table) : table[j].code = obs.speciesCode
        THEN [j \in 1..Len(table) |->
                IF table[j].code = obs.speciesCode
                THEN [table[j] EXCEPT !.count = @ + 1] ELSE table[j]]
        ELSE Append(table, [code |-> obs.speciesCode,
                            commonName |-> obs.comName, count |-> 1])
      acc[i \in 0..Len(observations)] ==
        IF i = 0 THEN <<>> ELSE Tally(acc[i - 1], observations[i])
  IN acc[Len(observations)]

\* a faulty variant of the summary: totalChecklists the number of species
fetchHotspotSpeciesCountingSpecies(hotspotId, observations) ==
  [hotspotId |-> hotspotId,
   species |-> speciesFrequency(observations),
   totalChecklists |-> Len(speciesFrequency(observations))]

fetchHotspotSpecies(hotspotId, observations) ==
  [hotspotId |-> hotspotId,
   species |-> speciesFrequency(observations),
   totalChecklists |-> Len(observations)]

\* the catch branch of fetchHotspotSpecies
fetchHotspotSpeciesFailed(hotspotId) ==
  [hotspotId |-> hotspotId, species |-> <<>>, totalChecklists |-> 0]

---------------------------------------------------------------------------
(* calculateRecommendations. *)

\* a faulty variant of the filter: the test of membership inverted
IsNewInverted(code) == code \in userLifeList

\* !userLifeList.has(code)
IsNew(code) == code \notin userLifeList

newSpeciesOf(hotspotData) ==
  SelectSeq(hotspotData.species, LAMBDA e : IsNew(e.code))

\* a faulty variant of the probability: the count left out
ProbabilityOfOne(count, totalChecklists) == Divide(1, totalChecklists)

\* data.count / hotspotData.totalChecklists
Probability(count, totalChecklists) == Divide(count, totalChecklists)

\* newSpecies.reduce((sum, [_, data]) => sum + probability, 0)
expectedNewSpeciesOf(newSpecies, totalChecklists) ==
  LET sum[i \in 0..Len(newSpecies)] ==
        IF i = 0 THEN Zero
        ELSE Plus(sum[i - 1], Probability(newSpecies[i].count, totalChecklists))
  IN sum[Len(newSpecies)]

\* a faulty variant of the score, the one the code's comment describes:
\* expected new species / distance, without the square root
scoreLinear(expectedNewSpecies, distance) ==
  IF Positive(distance) /\ expectedNewSpecies.tag = "fin"
  THEN Fin(expectedNewSpecies.num * DistScale, expectedNewSpecies.den * distance.num)
  ELSE expectedNewSpecies

\* a faulty variant of the score: the test distance > 0 left out, so that a
\* distance of 0 divides by 0
scoreUnguarded(expectedNewSpecies, distance) ==
  IF Positive(distance) THEN DivSqrt(expectedNewSpecies, distance)
  ELSE IF Positive(expectedNewSpecies) THEN Infinity ELSE NaN

\* distance > 0 ? expectedNewSpecies / Math.sqrt(distance) : expectedNewSpecies
scoreOf(expectedNewSpecies, distance) ==
  IF Positive(distance) THEN DivSqrt(expectedNewSpecies, distance)
  ELSE expectedNewSpecies

\* a faulty variant of the comparator: ascending counts
CountAscending(a, b) == a.count - b.count > 0

\* (a, b) => b[1].count - a[1].count
CountAfter(a, b) == b.count - a.count > 0

\* the cutoff of slice(0, 5)
TopSpeciesCutoff == 5

topNewSpeciesOf(newSpecies, totalChecklists) ==
  LET top == Slice(ArraySort(newSpecies, CountAfter), TopSpeciesCutoff)
  IN [i \in 1..Len(top) |->
        [name |-> top[i].commonName,
         probability |->
           toFixed(Times100(Probability(top[i].count, totalChecklists)), 0)]]

Recommendation(hotspot) ==
  LET hotspotData == speciesData[hotspot.locId]
      newSpecies == newSpeciesOf(hotspotData)
      expectedNewSpecies ==
        expectedNewSpeciesOf(newSpecies, hotspotData.totalChecklists)
      distance == calculateDistance(CHICAGO_WEST.lat, CHICAGO_WEST.lng,
                                    hotspot.lat, hotspot.lng)
      score == scoreOf(expectedNewSpecies, distance)
  IN [hotspot |-> hotspot,
      newSpeciesCount |-> Len(newSpecies),
      expectedNewSpecies |-> toFixed(expectedNewSpecies, 1),
      distance |-> toFixed(distance, 1),
      score |-> toFixed(score, 2),
      topNewSpecies |-> topNewSpeciesOf(newSpecies, hotspotData.totalChecklists)]

\* a faulty variant of the filter: locations without a new species dropped too
FilterNotNullWithNew(recs) ==
  SelectSeq(recs, LAMBDA r : IF r = Null THEN FALSE ELSE r.newSpeciesCount > 0)

\* .filter(r => r !== null)
FilterNotNull(recs) == SelectSeq(recs, LAMBDA r : r # Null)

\* a faulty variant of the comparator: > 0 for equal scores too
ScoreAfterOrEqual(a, b) ==
  ~Positive(Minus(parseFloat(a.score), parseFloat(b.score)))

\* (a, b) => parseFloat(b.score) - parseFloat(a.score)
ScoreAfter(a, b) == Positive(Minus(parseFloat(b.score), parseFloat(a.score)))

rankedRecommendations ==
  LET mapped == [i \in 1..Len(hotspots) |->
                   IF hotspots[i].locId \in DOMAIN speciesData
                   THEN Recommendation(hotspots[i]) ELSE Null]
  IN ArraySort(FilterNotNull(mapped), ScoreAfter)

\* a faulty variant of the pass: every species table sorted in place
calculateRecommendationsSortingTables ==
  /\ recommendations' = rankedRecommendations
  /\ stage' = "recommendations"
  /\ speciesData' = [id \in DOMAIN speciesData |->
                       [speciesData[id] EXCEPT !.species = ArraySort(@, CountAfter)]]
  /\ UNCHANGED <<apiKey, hotspots, userLifeList, loading, error, pc, results, idx,
                 args, returned>>

\* a faulty variant of the pass: an empty ranking reported as an error
calculateRecommendationsRejectingEmpty ==
  /\ recommendations' = rankedRecommendations
  /\ stage' = "recommendations"
  /\ error' = IF rankedRecommendations = <<>> THEN "No recommendations" ELSE error
  /\ UNCHANGED <<apiKey, hotspots, speciesData, userLifeList, loading, pc, results, idx,
                 args, returned>>

calculateRecommendations ==
  /\ recommendations' = rankedRecommendations
  /\ stage' = "recommendations"
  /\ UNCHANGED <<apiKey, hotspots, speciesData, userLifeList, loading, error,
                 pc, results, idx,
                 args, returned>>

---------------------------------------------------------------------------
(* The pipeline: the handlers of the component, one action per handler or   *)
(* per step between two awaits.  pc is the await an async handler is        *)
(* suspended at; results and idx are processAllHotspots' locals.            *)

\* the species codes the observation endpoint reports in the pipeline
ObservedCodes == {"norcad", "snoowl1"}

\* the responses of the hotspot endpoint in the pipeline: the center and
\* location B, in any order
PipelineResponses ==
  {r \in ApiResponses : \A i \in 1..Len(r) : r[i].locId \in {"L0", "LB"}}

ApiObservations ==
  UNION { [1..n -> {[speciesCode |-> c, comName |-> CommonName(c)] :
                      c \in ObservedCodes}]
          : n \in 0..MaxObs }

Init ==
  /\ apiKey \in {"", "key"}
  /\ stage = "config"
  /\ hotspots = <<>>
  /\ speciesData = NoResults
  /\ userLifeList = {}
  /\ recommendations = <<>>
  /\ loading = FALSE
  /\ error = NoError
  /\ pc = "idle"
  /\ results = NoResults
  /\ idx = 0
  /\ args = Null
  /\ returned = Null

setApiKey(key) ==
  /\ stage = "config"
  /\ apiKey' = key
  /\ UNCHANGED <<stage, hotspots, speciesData, userLifeList, recommendations,
                 loading, error, pc, results, idx, args, returned>>

\* the button is disabled while loading or without a key
fetchHotspots ==
  /\ stage = "config" /\ ~loading /\ apiKey # ""
  /\ loading' = TRUE
  /\ error' = NoError
  /\ pc' = "fetchHotspots"
  /\ UNCHANGED <<apiKey, stage, hotspots, speciesData, userLifeList,
                 recommendations, results, idx,
                 args, returned>>

fetchHotspotsOk(response) ==
  /\ pc = "fetchHotspots"
  /\ hotspots' = hotspotsWithDistance(response)
  /\ stage' = "hotspots"
  /\ loading' = FALSE
  /\ pc' = "idle"
  /\ UNCHANGED <<apiKey, speciesData, userLifeList, recommendations, error,
                 results, idx,
                 args, returned>>

fetchHotspotsFailed ==
  /\ pc = "fetchHotspots"
  /\ error' = "Failed to fetch hotspots. Please check your API key."
  /\ loading' = FALSE
  /\ pc' = "idle"
  /\ UNCHANGED <<apiKey, stage, hotspots, speciesData, userLifeList,
                 recommendations, results, idx,
                 args, returned>>

\* a faulty variant of the handler: its button not disabled while loading
processAllHotspotsNotDisabled ==
  /\ stage = "hotspots"
  /\ error' = NoError
  /\ IF Len(hotspots) = 0
     THEN /\ speciesData' = NoResults
          /\ stage' = "species"
          /\ UNCHANGED <<loading, pc, results, idx>>
     ELSE /\ loading' = TRUE
          /\ results' = NoResults
          /\ idx' = 1
          /\ pc' = "fetchSpecies"
          /\ UNCHANGED <<speciesData, stage>>
  /\ UNCHANGED <<apiKey, hotspots, userLifeList, recommendations,
                 args, returned>>

\* up to the first await: the fetch for the first hotspot is sent, or,
\* with no hotspots, the handler runs to its end
processAllHotspots ==
  /\ stage = "hotspots" /\ ~loading
  /\ error' = NoError
  /\ IF Len(hotspots) = 0
     THEN /\ speciesData' = NoResults
          /\ stage' = "species"
          /\ UNCHANGED <<loading, pc, results, idx>>
     ELSE /\ loading' = TRUE
          /\ results' = NoResults
          /\ idx' = 1
          /\ pc' = "fetchSpecies"
          /\ UNCHANGED <<speciesData, stage>>
  /\ UNCHANGED <<apiKey, hotspots, userLifeList, recommendations,
                 args, returned>>

Store(data) ==
  [id \in DOMAIN results \cup {data.hotspotId} |->
     IF id = data.hotspotId THEN data ELSE results[id]]

\* the fetch for hotspots[idx] answers; the 200 ms delay starts
fetchSpeciesOk(observations) ==
  /\ pc = "fetchSpecies"
  /\ results' = Store(fetchHotspotSpecies(hotspots[idx].locId, observations))
  /\ pc' = "delay"
  /\ UNCHANGED <<apiKey, stage, hotspots, speciesData, userLifeList,
                 recommendations, loading, error, idx,
                 args, returned>>

\* a faulty variant of the failed fetch: fetchHotspotSpecies without its
\* catch, so that the error reaches the catch of processAllHotspots
fetchSpeciesFailedAborting ==
  /\ pc = "fetchSpecies"
  /\ error' = "Failed to fetch species"
  /\ loading' = FALSE
  /\ pc' = "idle"
  /\ results' = NoResults
  /\ idx' = 0
  /\ UNCHANGED <<apiKey, stage, hotspots, speciesData, userLifeList,
                 recommendations, args, returned>>

fetchSpeciesFailed ==
  /\ pc = "fetchSpecies"
  /\ results' = Store(fetchHotspotSpeciesFailed(hotspots[idx].locId))
  /\ pc' = "delay"
  /\ UNCHANGED <<apiKey, stage, hotspots, speciesData, userLifeList,
                 recommendations, loading, error, idx,
                 args, returned>>

\* a faulty variant of the loop: it ends one hotspot early
delayElapsedOneEarly ==
  /\ pc = "delay"
  /\ IF idx + 1 < Len(hotspots)
     THEN /\ idx' = idx + 1
          /\ pc' = "fetchSpecies"
          /\ UNCHANGED <<speciesData, stage, loading, results>>
     ELSE /\ speciesData' = results
          /\ stage' = "species"
          /\ loading' = FALSE
          /\ pc' = "idle"
          /\ results' = NoResults
          /\ idx' = 0
  /\ UNCHANGED <<apiKey, hotspots, userLifeList, recommendations, error,
                 args, returned>>

\* the delay is over: the next fetch is sent, or the loop ends and the
\* results are published
delayElapsed ==
  /\ pc = "delay"
  /\ IF idx < Len(hotspots)
     THEN /\ idx' = idx + 1
          /\ pc' = "fetchSpecies"
          /\ UNCHANGED <<speciesData, stage, loading, results>>
     ELSE /\ speciesData' = results
          /\ stage' = "species"
          /\ loading' = FALSE
          /\ pc' = "idle"
          /\ results' = NoResults
          /\ idx' = 0
  /\ UNCHANGED <<apiKey, hotspots, userLifeList, recommendations, error,
                 args, returned>>

\* a faulty variant of the toggle: a code that is present is not deleted
newListAddOnly(list, code) == list \cup {code}

\* newList after the delete or the add
newList(list, code) ==
  IF code \in list THEN list \ {code} ELSE list \cup {code}

toggleBirdInLifeList(code) ==
  /\ stage = "species"
  /\ userLifeList' = newList(userLifeList, code)
  /\ UNCHANGED <<apiKey, stage, hotspots, speciesData, recommendations,
                 loading, error, pc, results, idx,
                 args, returned>>

backToHotspots ==
  /\ stage = "species"
  /\ stage' = "hotspots"
  /\ UNCHANGED <<apiKey, hotspots, speciesData, userLifeList, recommendations,
                 loading, error, pc, results, idx,
                 args, returned>>

\* a faulty variant of the two buttons: not disabled while the life list
\* is empty
findHotspotsWithNewBirdsNotDisabled ==
  /\ stage = "species"
  /\ calculateRecommendations

\* the two buttons that call calculateRecommendations are disabled while
\* the life list is empty
findHotspotsWithNewBirds ==
  /\ stage = "species" /\ userLifeList # {}
  /\ calculateRecommendations

resetPipeline ==
  /\ stage = "recommendations"
  /\ stage' = "config"
  /\ hotspots' = <<>>
  /\ speciesData' = NoResults
  /\ recommendations' = <<>>
  /\ userLifeList' = {}
  /\ UNCHANGED <<apiKey, loading, error, pc, results, idx,
                 args, returned>>

Next ==
  \/ \E key \in {"", "key"} : setApiKey(key)
  \/ fetchHotspots
  \/ \E response \in PipelineResponses : fetchHotspotsOk(response)
  \/ fetchHotspotsFailed
  \/ processAllHotspots
  \/ \E observations \in ApiObservations : fetchSpeciesOk(observations)
  \/ fetchSpeciesFailed
  \/ delayElapsed
  \/ \E code \in COMMON_CHICAGO_BIRDS : toggleBirdInLifeList(code)
  \/ backToHotspots
  \/ findHotspotsWithNewBirds
  \/ resetPipeline

Spec == Init /\ [][Next]_vars

---------------------------------------------------------------------------
(* The engine on its own: calculateRecommendations applied to drawn inputs. *)
(* The hotspot list is what fetchHotspots stores for some response; the     *)
(* summaries and the life list are any values of the data model, also      *)
(* those the pipeline never builds (a location without a summary, a count   *)
(* above totalChecklists, totalChecklists = 0 with species, an empty life   *)
(* list).  Either at most one hotspot, with a table of up to MaxSpecies     *)
(* species, or up to MaxHotspots locations, listed or summarised or both,   *)
(* with tables of at most one species.                                      *)

\* the counts a drawn table gives a species
Counts == {1, 2}

Reverse(s) == [i \in 1..Len(s) |-> s[Len(s) + 1 - i]]

Table(order, n, counts) ==
  [i \in 1..n |-> [code |-> order[i], commonName |-> CommonName(order[i]),
                   count |-> counts[i]]]

TablesUpTo(orders, maxLen) ==
  UNION { UNION { {Table(o, n, c) : c \in [1..n -> Counts]}
                  : n \in 0..maxLen }
          : o \in orders }

SummariesOf(tables) ==
  {[species |-> t, totalChecklists |-> k] : t \in tables, k \in 0..MaxTotal}

RichSummaries == SummariesOf(TablesUpTo({SpeciesCodes, Reverse(SpeciesCodes)}, MaxSpecies))
SimpleSummaries == SummariesOf(TablesUpTo({SpeciesCodes}, 1))

SpeciesDataOf(f) ==
  [id \in DOMAIN f |-> [hotspotId |-> id, species |-> f[id].species,
                        totalChecklists |-> f[id].totalChecklists]]

InitEngine ==
  /\ apiKey = "key"
  /\ stage = "species"
  /\ \E response \in ApiResponses : hotspots = hotspotsWithDistance(response)
  /\ \/ /\ Len(hotspots) <= 1
        /\ \E D \in SUBSET {hotspots[i].locId : i \in 1..Len(hotspots)} :
             \E f \in [D -> RichSummaries] : speciesData = SpeciesDataOf(f)
     \/ \E D \in SUBSET LocIds :
          /\ Cardinality(D \cup {hotspots[i].locId : i \in 1..Len(hotspots)})
               <= MaxHotspots
          /\ \E f \in [D -> SimpleSummaries] : speciesData = SpeciesDataOf(f)
  /\ userLifeList \in SUBSET COMMON_CHICAGO_BIRDS
  /\ recommendations = <<>>
  /\ loading = FALSE
  /\ error = NoError
  /\ pc = "idle"
  /\ results = NoResults
  /\ idx = 0
  /\ args = Null
  /\ returned = Null

recommend ==
  /\ stage = "species"
  /\ calculateRecommendations

NextEngine == recommend

SpecEngine == InitEngine /\ [][NextEngine]_vars

---------------------------------------------------------------------------
(* Properties of the ranked output.  They are stated on the state after a   *)
(* pass, from the inputs of the pass (which the pass leaves in place) and   *)
(* in integer arithmetic, without the operators of the engine.              *)

\* a scoring pass has run
Done == stage = "recommendations"

\* the ids of the hotspot list
Listed == {hotspots[i].locId : i \in 1..Len(hotspots)}

RecIdx == 1..Len(recommendations)

\* the positions of the ranked output that recommend location id
RecsOf(id) == {i \in RecIdx : recommendations[i].hotspot.locId = id}

\* the summary a recommendation was computed from
SummaryOf(r) == speciesData[r.hotspot.locId]

\* the positions of a summary's table whose code is not on the life list
NewIdx(d) == {j \in 1..Len(d.species) : d.species[j].code \notin userLifeList}

RECURSIVE SumCounts(_, _)
SumCounts(d, J) ==
  IF J = {} THEN 0
  ELSE LET j == CHOOSE k \in J : TRUE
       IN d.species[j].count + SumCounts(d, J \ {j})

\* the sum of the counts of a summary's new species
NewCountSum(d) == SumCounts(d, NewIdx(d))

\* n is num / den rounded to the nearest integer, a half going up
RoundsTo(n, num, den) ==
  (2 * n - 1) * den <= 2 * num /\ 2 * num < (2 * n + 1) * den

\* the digit string s spells a finite number
Finite(s) == s.tag = "fin"

\* the distance of a recommendation's location, in hundredths of a kilometre
DistanceOf(r) == r.hotspot.distance.num

\* the expected value of r is a finite number > 0 / is Infinity
FiniteExpectation(r) == SummaryOf(r).totalChecklists > 0
InfiniteExpectation(r) ==
  SummaryOf(r).totalChecklists = 0 /\ NewCountSum(SummaryOf(r)) > 0

---------------------------------------------------------------------------
---------------------------------------------------------------------------
\* C2: the ranked output holds exactly one recommendation for each listed
\* location that has a summary, none for a listed location without one and
\* none for any other location; a missing summary sets no error.
C2_OneRecommendationPerSummarisedLocation ==
  Done =>
    /\ \A id \in Listed :
         Cardinality(RecsOf(id)) = IF id \in DOMAIN speciesData THEN 1 ELSE 0
    /\ \A i \in RecIdx : recommendations[i].hotspot.locId \in Listed
    /\ error = NoError

\* C2, its case: a pass over a list of one location that has no summary and
\* one that has a summary without any new species
C2_Witness ==
  /\ Done
  /\ Len(hotspots) = 2
  /\ hotspots[1].locId \notin DOMAIN speciesData
  /\ hotspots[2].locId \in DOMAIN speciesData
  /\ Len(recommendations) = 1
  /\ recommendations[1].newSpeciesCount = 0

---------------------------------------------------------------------------
\* the score of x before rounding is strictly greater than that of y:
\* (s / t) / sqrt(d), with d = 1 km for a location at the center, Infinity
\* for counts over zero checklists and 0 for an empty sum
ScoreKey(r) ==
  LET d == SummaryOf(r)
  IN [inf |-> InfiniteExpectation(r),
      s |-> NewCountSum(d),
      t |-> IF d.totalChecklists = 0 THEN 1 ELSE d.totalChecklists,
      dist |-> IF DistanceOf(r) > 0 THEN DistanceOf(r) ELSE DistScale]

ScoreGreater(x, y) ==
  LET a == ScoreKey(x)
      b == ScoreKey(y)
  IN IF a.inf \/ b.inf THEN a.inf /\ ~b.inf
     ELSE (a.s * b.t) * (a.s * b.t) * b.dist > (b.s * a.t) * (b.s * a.t) * a.dist

\* C3: of two recommendations, the one whose score (expectedNewSpecies, or
\* expectedNewSpecies / sqrt(distance) when distance > 0) is strictly greater
\* comes first in the ranked output.  The code ranks by the score rounded to
\* two decimals: this statement fails.
C3_GreaterScoreRanksFirst ==
  Done =>
    \A i, j \in RecIdx :
      ScoreGreater(recommendations[i], recommendations[j]) => i < j

---------------------------------------------------------------------------
\* C4: newSpeciesCount is the number of entries of the location's table
\* whose code is not on the life list (all of them when the life list is
\* empty), and an entry on the life list adds nothing to newSpeciesCount,
\* to expectedNewSpecies or to topNewSpecies.
C4_NewSpeciesPartition ==
  Done =>
    \A i \in RecIdx :
      LET r == recommendations[i]
          d == SummaryOf(r)
      IN /\ r.newSpeciesCount = Cardinality(NewIdx(d))
         /\ userLifeList = {} => r.newSpeciesCount = Len(d.species)
         /\ \A p \in 1..Len(r.topNewSpecies) :
              \A c \in userLifeList : r.topNewSpecies[p].name # CommonName(c)
         /\ NewIdx(d) = {} =>
              /\ Finite(r.expectedNewSpecies) /\ r.expectedNewSpecies.n = 0
              /\ r.topNewSpecies = <<>>
         /\ FiniteExpectation(r) =>
              /\ Finite(r.expectedNewSpecies)
              /\ RoundsTo(r.expectedNewSpecies.n, 10 * NewCountSum(d),
                          d.totalChecklists)

\* C4, its case: a table with species on the life list and species off it,
\* the former with counts that would change every field
C4_Witness ==
  /\ Done
  /\ userLifeList # {}
  /\ \E i \in RecIdx :
       LET r == recommendations[i]
           d == SummaryOf(r)
       IN /\ r.newSpeciesCount >= 2
          /\ r.newSpeciesCount + 2 = Len(d.species)
          /\ d.totalChecklists > 0
          /\ \E j \in 1..Len(d.species) :
               d.species[j].code \in userLifeList /\ d.species[j].count = 2

---------------------------------------------------------------------------
\* C5 as stated: with totalChecklists > 0, the expectedNewSpecies of the
\* recommendation equals the sum of count / totalChecklists over the new
\* species (1 over 20 gives 0.05).  The field is a one-decimal string: this
\* statement fails.
C5_ExpectedEqualsSum ==
  Done =>
    \A i \in RecIdx :
      LET r == recommendations[i]
          d == SummaryOf(r)
      IN FiniteExpectation(r) =>
           /\ Finite(r.expectedNewSpecies)
           /\ r.expectedNewSpecies.n * d.totalChecklists = 10 * NewCountSum(d)

\* C5: with totalChecklists > 0, the expectedNewSpecies of the
\* recommendation is the sum of count / totalChecklists over the new
\* species, rounded to one decimal.
C5_ExpectedIsSumRoundedToOneDecimal ==
  Done =>
    \A i \in RecIdx :
      LET r == recommendations[i]
          d == SummaryOf(r)
      IN FiniteExpectation(r) =>
           /\ Finite(r.expectedNewSpecies)
           /\ r.expectedNewSpecies.digits = 1
           /\ RoundsTo(r.expectedNewSpecies.n, 10 * NewCountSum(d),
                       d.totalChecklists)

\* C5, its case: two new species with count 2 next to one on the life
\* list, over 3 checklists: the sum is 4/3 and the field "1.3"
C5_Witness ==
  /\ Done
  /\ \E i \in RecIdx :
       LET r == recommendations[i]
           d == SummaryOf(r)
       IN /\ d.totalChecklists = 3
          /\ Cardinality(NewIdx(d)) = 2
          /\ Len(d.species) = 3
          /\ NewCountSum(d) = 4
          /\ r.expectedNewSpecies.n = 13

---------------------------------------------------------------------------
\* the score field of r is x / sqrt(distance field), or x when that field is
\* 0, for x the expectedNewSpecies field of r
ScoreFromFields(r) ==
  /\ Finite(r.score) /\ Finite(r.expectedNewSpecies)
  /\ IF r.distance.n = 0
     THEN r.score.n = 10 * r.expectedNewSpecies.n
     ELSE r.score.n * r.score.n * r.distance.n
            = 1000 * r.expectedNewSpecies.n * r.expectedNewSpecies.n

\* the score field of r is (s / t) / sqrt(d), or s / t at the center, for the
\* sum s / t and the distance d before rounding
ScoreFromValues(r) ==
  LET d == SummaryOf(r)
      s == NewCountSum(d)
      t == d.totalChecklists
  IN /\ Finite(r.score) /\ t > 0
     /\ IF DistanceOf(r) = 0
        THEN r.score.n * t = 100 * s
        ELSE r.score.n * r.score.n * t * t * DistanceOf(r) = 1000000 * s * s

---------------------------------------------------------------------------
\* the place of table entry j among the new species of d: behind every new
\* species with a greater count and every earlier one with the same count
Rank(d, j) ==
  1 + Cardinality({k \in NewIdx(d) :
                     \/ d.species[k].count > d.species[j].count
                     \/ d.species[k].count = d.species[j].count /\ k < j})

\* C7: topNewSpecies has min(5, newSpeciesCount) entries, and its p-th entry
\* is the p-th of the new species in descending order of count, equal counts
\* in the order of the table.
C7_TopFiveByCountStable ==
  Done =>
    \A i \in RecIdx :
      LET r == recommendations[i]
          d == SummaryOf(r)
          top == r.topNewSpecies
      IN /\ Len(top) = IF r.newSpeciesCount < 5 THEN r.newSpeciesCount ELSE 5
         /\ \A p \in 1..Len(top) :
              \E j \in NewIdx(d) :
                Rank(d, j) = p /\ top[p].name = d.species[j].commonName
         /\ \A j \in NewIdx(d) :
              Rank(d, j) > Len(top) =>
                \A p \in 1..Len(top) :
                  \A k \in NewIdx(d) :
                    top[p].name = d.species[k].commonName =>
                      d.species[k].count >= d.species[j].count

\* C7, its case: six new species, the table not in order of count and with
\* equal counts, the one left out having the smallest count
C7_Witness ==
  /\ Done
  /\ \E i \in RecIdx :
       LET r == recommendations[i]
           d == SummaryOf(r)
       IN /\ r.newSpeciesCount = 6
          /\ Len(r.topNewSpecies) = 5
          /\ d.species[1].count = 1
          /\ d.species[2].count = 2
          /\ d.species[3].count = 1
          /\ d.species[6].count = 2
          /\ r.topNewSpecies[1].name = d.species[2].commonName
          /\ r.topNewSpecies[5].name = d.species[1].commonName

---------------------------------------------------------------------------
\* x and y have the same expected value before rounding, and it is > 0
SameExpectation(x, y) ==
  LET a == SummaryOf(x)
      b == SummaryOf(y)
  IN /\ NewCountSum(a) > 0
     /\ NewCountSum(b) > 0
     /\ \/ a.totalChecklists = 0 /\ b.totalChecklists = 0
        \/ /\ a.totalChecklists > 0 /\ b.totalChecklists > 0
           /\ NewCountSum(a) * b.totalChecklists
                = NewCountSum(b) * a.totalChecklists

\* C8 as stated: of two summarised locations with the same positive
\* expectedNewSpecies, the one closer to the center comes first in the
\* ranked output.  A location at the center scores as if it were 1 km away:
\* this statement fails.
C8_CloserRanksFirst ==
  Done =>
    \A i, j \in RecIdx :
      LET x == recommendations[i]
          y == recommendations[j]
      IN SameExpectation(x, y) /\ DistanceOf(x) < DistanceOf(y) => i < j

\* C8: of two summarised locations of the list fetchHotspots stores, with
\* the same positive expected value before rounding and both at a distance
\* > 0 from the center, the closer one comes first in the ranked output.
C8_CloserRanksFirstOffCenter ==
  Done =>
    \A i, j \in RecIdx :
      LET x == recommendations[i]
          y == recommendations[j]
      IN /\ SameExpectation(x, y)
         /\ 0 < DistanceOf(x)
         /\ DistanceOf(x) < DistanceOf(y)
         => i < j

\* C8, its case: two locations 8.83 km and 9.39 km away, each with 1 / 3
\* expected new species, whose scores both round to "0.11"
C8_Witness ==
  /\ Done
  /\ Len(recommendations) = 2
  /\ SameExpectation(recommendations[1], recommendations[2])
  /\ DistanceOf(recommendations[1]) = 883
  /\ DistanceOf(recommendations[2]) = 939
  /\ recommendations[1].score = recommendations[2].score
  /\ recommendations[1].score.n = 11

---------------------------------------------------------------------------
\* C9: a scoring pass changes recommendations and stage only: the hotspot
\* list and its order, every summary of speciesData with the order and the
\* counts of its entries, and the life list stay as they were.
C9_ScoringPassLeavesInputsUnchanged ==
  [][stage # "recommendations" /\ stage' = "recommendations" =>
       /\ hotspots' = hotspots
       /\ speciesData' = speciesData
       /\ userLifeList' = userLifeList
       /\ UNCHANGED <<apiKey, loading, error, pc, results, idx,
                    args, returned>>]_vars

\* C9, its case: a pass with a life list that is not empty, which ranked
\* the second location of the hotspot list first
C9_Witness ==
  /\ Done
  /\ Len(hotspots) = 2
  /\ Len(recommendations) = 2
  /\ recommendations[1].hotspot = hotspots[2]
  /\ recommendations[1].score.n > recommendations[2].score.n
  /\ userLifeList # {}

---------------------------------------------------------------------------
\* C10: a pass over an empty hotspot list gives an empty ranked output and
\* sets no error, whatever the summaries and the life list.
C10_EmptyLocationsEmptyRanking ==
  Done /\ hotspots = <<>> => recommendations = <<>> /\ error = NoError

\* C10, its case: a pass over no hotspots, with summaries of two locations
\* that have new species and a life list that is not empty
C10_Witness ==
  /\ Done
  /\ hotspots = <<>>
  /\ Cardinality(DOMAIN speciesData) = 2
  /\ \A id \in DOMAIN speciesData :
       NewIdx(speciesData[id]) # {} /\ speciesData[id].totalChecklists > 0
  /\ userLifeList # {}
  /\ recommendations = <<>>

---------------------------------------------------------------------------
(* calculateDistance on its own: applied to two points of a grid around the *)
(* center, in both directions, and scoreOf applied to its result.           *)

\* the grid reaches MaxGrid steps of 0.02 degrees from the center each way
MaxGrid == 4

GridPoints ==
  {[lat |-> CHICAGO_WEST.lat + 20 * i, lng |-> CHICAGO_WEST.lng + 20 * j] :
     i \in -MaxGrid..MaxGrid, j \in -MaxGrid..MaxGrid}

InitDistance ==
  /\ apiKey = ""
  /\ stage = "config"
  /\ hotspots = <<>>
  /\ speciesData = NoResults
  /\ userLifeList = {}
  /\ recommendations = <<>>
  /\ loading = FALSE
  /\ error = NoError
  /\ pc = "idle"
  /\ results = NoResults
  /\ idx = 0
  /\ args \in [a : GridPoints, b : GridPoints, expectedNewSpecies : {Divide(2, 3)}]
  /\ returned = Null

measure ==
  /\ args # Null
  /\ returned = Null
  /\ returned' =
       [ab |-> calculateDistance(args.a.lat, args.a.lng, args.b.lat, args.b.lng),
        ba |-> calculateDistance(args.b.lat, args.b.lng, args.a.lat, args.a.lng),
        score |-> scoreOf(args.expectedNewSpecies,
                          calculateDistance(args.a.lat, args.a.lng,
                                            args.b.lat, args.b.lng))]
  /\ UNCHANGED <<apiKey, stage, hotspots, speciesData, userLifeList,
                 recommendations, loading, error, pc, results, idx, args>>

NextDistance == measure

SpecDistance == InitDistance /\ [][NextDistance]_vars

\* calculateDistance has been applied to the two points of args
Measured == returned # Null /\ args # Null

---------------------------------------------------------------------------
\* C11: calculateDistance is symmetric: the distance from a to b equals the
\* distance from b to a, for all pairs of points.
C11_DistanceSymmetric ==
  Measured => returned.ab = returned.ba

\* C11, its case: two points that differ in latitude and in longitude, at
\* a distance > 0
C11_Witness ==
  /\ Measured
  /\ args.a.lat < args.b.lat
  /\ args.a.lng > args.b.lng
  /\ returned.ab.num > 0
  /\ returned.ba.num > 0

---------------------------------------------------------------------------
\* C12: calculateDistance returns exactly 0 for two identical points and is
\* never negative, so that a location at the center takes the branch of the
\* score for a distance of 0: its score is expectedNewSpecies.
C12_DistanceZeroAtSamePoint ==
  Measured =>
    /\ returned.ab.tag = "fin" /\ returned.ab.num >= 0
    /\ args.a = args.b =>
         /\ returned.ab.num = 0
         /\ returned.score = args.expectedNewSpecies
    /\ returned.ab.num = 0 => returned.score = args.expectedNewSpecies

\* C12, its case: the distance from the center to the center
C12_Witness ==
  /\ Measured
  /\ args.a.lat = CHICAGO_WEST.lat /\ args.a.lng = CHICAGO_WEST.lng
  /\ args.b = args.a
  /\ returned.ab.num = 0
  /\ returned.score = Divide(2, 3)

---------------------------------------------------------------------------
\* the distance fixture: from (41.94, -87.67) to (41.88, -87.75)
Fixture ==
  /\ Measured
  /\ args.a = [lat |-> 41940, lng |-> -87670]
  /\ args.b = [lat |-> 41880, lng |-> -87750]

\* C13 as stated: calculateDistance(41.94, -87.67, 41.88, -87.75) is 8.1 km,
\* give or take 0.2 km.  The haversine distance of these points is 9.40 km:
\* this statement fails.
C13_FixtureIsEightPointOne ==
  Fixture => 790 <= returned.ab.num /\ returned.ab.num <= 830

\* C13: calculateDistance(41.94, -87.67, 41.88, -87.75) is 9.4 km, give or
\* take 0.2 km.
C13_FixtureIsNinePointFour ==
  Fixture => 920 <= returned.ab.num /\ returned.ab.num <= 960

\* C13, its case: the distance of the fixture has been computed
C13_Witness == Fixture /\ returned.ab.num = 939

---------------------------------------------------------------------------
(* fetchHotspotSpecies on its own: the summary of a drawn sequence of       *)
(* observation records.                                                     *)

\* most records in a drawn sequence
MaxRecords == 4

\* the species codes of the drawn records
RecordCodes == {"norcad", "amerob", "blujay"}

ObservationRecords ==
  {[speciesCode |-> c, comName |-> CommonName(c)] : c \in RecordCodes}

InitTally ==
  /\ apiKey = "key"
  /\ stage = "hotspots"
  /\ hotspots = <<>>
  /\ speciesData = NoResults
  /\ userLifeList = {}
  /\ recommendations = <<>>
  /\ loading = FALSE
  /\ error = NoError
  /\ pc = "idle"
  /\ results = NoResults
  /\ idx = 0
  /\ \E n \in 0..MaxRecords :
       \E observations \in [1..n -> ObservationRecords] :
         args = [hotspotId |-> "L0", observations |-> observations]
  /\ returned = Null

tally ==
  /\ args # Null
  /\ returned = Null
  /\ returned' = fetchHotspotSpecies(args.hotspotId, args.observations)
  /\ UNCHANGED <<apiKey, stage, hotspots, speciesData, userLifeList,
                 recommendations, loading, error, pc, results, idx, args>>

NextTally == tally

SpecTally == InitTally /\ [][NextTally]_vars

\* the number of records of a sequence that carry code c
RecordsWith(observations, c) ==
  Cardinality({i \in 1..Len(observations) : observations[i].speciesCode = c})

\* the entries of a table for code c
EntriesFor(table, c) == {j \in 1..Len(table) : table[j].code = c}

---------------------------------------------------------------------------
\* C14: in the summary fetchHotspotSpecies builds from a sequence of
\* observation records, the table has one entry for each code that occurs
\* in the sequence and none for any other code, and the count of an entry
\* is the number of records that carry its code.
C14_TallyCountsRecords ==
  returned # Null =>
    /\ \A c \in RecordCodes :
         LET n == RecordsWith(args.observations, c)
             E == EntriesFor(returned.species, c)
         IN /\ Cardinality(E) = IF n > 0 THEN 1 ELSE 0
            /\ \A j \in E : returned.species[j].count = n
    /\ \A j \in 1..Len(returned.species) :
         returned.species[j].code \in RecordCodes

\* C14, its case: a sequence in which one code occurs twice with a record
\* of another code in between, and a third code does not occur
C14_Witness ==
  /\ returned # Null
  /\ Len(args.observations) = 4
  /\ args.observations[1].speciesCode = "blujay"
  /\ args.observations[2].speciesCode = "norcad"
  /\ args.observations[3].speciesCode = "blujay"
  /\ args.observations[4].speciesCode = "norcad"
  /\ Len(returned.species) = 2
  /\ returned.species[1].count = 2

---------------------------------------------------------------------------
(* Properties of the pipeline. *)

\* a species fetch is in flight: processAllHotspots is suspended at
\* await fetchHotspotSpecies
FetchInFlight == pc = "fetchSpecies"

\* this step sends a species fetch
FetchStarts == pc' = "fetchSpecies" /\ (pc # "fetchSpecies" \/ idx' # idx)

\* the ids of the first n hotspots of the list
FirstIds(n) == {hotspots[k].locId : k \in 1..n}

\* C15: processAllHotspots fetches one hotspot at a time, in the order of
\* the list: a fetch is sent only while none is in flight, the first one by
\* the handler's start and the one for hotspot idx + 1 when the delay that
\* follows the answer for hotspot idx is over; the answer of a fetch,
\* success or failure, is stored for its hotspot and starts the delay.
C15_SequentialFetches ==
  [][/\ FetchStarts =>
          /\ ~FetchInFlight
          /\ \/ pc = "idle" /\ idx' = 1 /\ results' = NoResults
             \/ pc = "delay" /\ idx' = idx + 1 /\ results' = results
     /\ FetchInFlight =>
          /\ idx \in 1..Len(hotspots)
          /\ DOMAIN results = FirstIds(idx - 1)
          /\ pc' # pc =>
               /\ pc' = "delay" /\ idx' = idx
               /\ DOMAIN results' = FirstIds(idx)]_vars

\* C15, its case: the fetch for the second hotspot is in flight, the answer
\* for the first one stored
C15_Witness ==
  /\ FetchInFlight
  /\ idx = 2
  /\ Len(hotspots) = 2
  /\ DOMAIN results = {hotspots[1].locId}
  /\ results[hotspots[1].locId].totalChecklists = 2

---------------------------------------------------------------------------
\* C16: while stage is "species" or "recommendations", speciesData holds a
\* summary for every hotspot of the list (and for no other location), and
\* at no time does it hold the summaries of a part of the list.
C16_NoPartialSummaries ==
  /\ stage \in {"species", "recommendations"} =>
       DOMAIN speciesData = FirstIds(Len(hotspots))
  /\ DOMAIN speciesData = {} \/ DOMAIN speciesData = FirstIds(Len(hotspots))

\* C16, its case: a pass has run over two hotspots whose summaries differ,
\* the second one that of a failed or empty fetch
C16_Witness ==
  /\ stage = "recommendations"
  /\ Len(hotspots) = 2
  /\ speciesData[hotspots[1].locId].totalChecklists = 2
  /\ speciesData[hotspots[2].locId].totalChecklists = 0
  /\ Len(recommendations) = 2

---------------------------------------------------------------------------
\* the place of a recommendation's location in the hotspot list
PlaceOf(r) == CHOOSE k \in 1..Len(hotspots) : hotspots[k].locId = r.hotspot.locId

\* C17: the ranking is stable: two recommendations with equal ranking keys
\* (scores equal as the sort compares them, after rounding to two decimals)
\* come in the order of their locations in the hotspot list.
C17_RankingStable ==
  Done =>
    \A i, j \in RecIdx :
      (i < j /\ recommendations[i].score = recommendations[j].score) =>
        PlaceOf(recommendations[i]) < PlaceOf(recommendations[j])

\* C17, its case: two recommendations with the same key "0.67", kept in
\* the order of the list although the second has the greater quotient
C17_Witness ==
  /\ Done
  /\ Len(recommendations) = 2
  /\ recommendations[1].score = recommendations[2].score
  /\ recommendations[1].score.n = 67
  /\ ScoreGreater(recommendations[2], recommendations[1])
  /\ PlaceOf(recommendations[1]) = 1

---------------------------------------------------------------------------
\* C18: with totalChecklists > 0, the p-th entry of topNewSpecies carries
\* the commonName of the p-th new species by count and, as probability,
\* that same species' count / totalChecklists * 100 rounded to the nearest
\* integer.
C18_TopSpeciesProbabilityPercent ==
  Done =>
    \A i \in RecIdx :
      LET r == recommendations[i]
          d == SummaryOf(r)
          top == r.topNewSpecies
      IN d.totalChecklists > 0 =>
           \A p \in 1..Len(top) :
             \E j \in NewIdx(d) :
               /\ Rank(d, j) = p
               /\ top[p].name = d.species[j].commonName
               /\ Finite(top[p].probability)
               /\ top[p].probability.digits = 0
               /\ RoundsTo(top[p].probability.n, 100 * d.species[j].count,
                           d.totalChecklists)

\* C18, its case: over 3 checklists, a new species with count 1 listed in
\* the table before one with count 2, next to one on the life list: the
\* entries are 67 and 33 percent, in this order
C18_Witness ==
  /\ Done
  /\ userLifeList # {}
  /\ \E i \in RecIdx :
       LET r == recommendations[i]
           d == SummaryOf(r)
       IN /\ d.totalChecklists = 3
          /\ Len(d.species) = 3
          /\ Len(r.topNewSpecies) = 2
          /\ r.topNewSpecies[1].probability.n = 67
          /\ r.topNewSpecies[2].probability.n = 33
          /\ \E j, k \in NewIdx(d) : j < k /\ d.species[j].count = 1
                                         /\ d.species[k].count = 2

---------------------------------------------------------------------------
\* this step is one of fetching hotspots, of fetching species or a scoring
\* pass
FetchOrScoringStep ==
  \/ pc' # pc
  \/ results' # results
  \/ stage' = "recommendations" /\ stage # "recommendations"
  \/ stage' = "hotspots" /\ stage = "config"
  \/ stage' = "species" /\ stage = "hotspots"

\* C19: the life list changes by the user's actions only: a toggle of one
\* code in the species stage, which adds the code if it is absent and
\* removes it if it is present and leaves every other code as it was (so
\* that two toggles of a code give the list back), or the reset, which
\* empties it; a step of fetching hotspots, of fetching species or of
\* scoring leaves it unchanged.
C19_LifeListChangesByUserOnly ==
  [][/\ userLifeList' # userLifeList =>
          \/ /\ stage = "species" /\ stage' = "species"
             /\ \E code \in COMMON_CHICAGO_BIRDS :
                  /\ code \in userLifeList' <=> code \notin userLifeList
                  /\ userLifeList' \ {code} = userLifeList \ {code}
          \/ /\ stage = "recommendations" /\ stage' = "config"
             /\ userLifeList' = {}
     /\ FetchOrScoringStep => userLifeList' = userLifeList
     /\ \A code \in COMMON_CHICAGO_BIRDS :
          /\ newList(newList(userLifeList, code), code) = userLifeList
          /\ code \in newList(userLifeList, code) <=> code \notin userLifeList]_vars

\* C19, its case: a scoring pass has run over two hotspots with the life
\* list the toggles left, one code of the two
C19_Witness ==
  /\ stage = "recommendations"
  /\ userLifeList = {"blujay"}
  /\ Len(hotspots) = 2
  /\ Len(recommendations) = 2

---------------------------------------------------------------------------
\* the positions of a summary's table
AllIdx(d) == 1..Len(d.species)

\* the counts of d add up to its totalChecklists, none is above it, and
\* totalChecklists is 0 only with an empty table
WellCounted(d) ==
  /\ SumCounts(d, AllIdx(d)) = d.totalChecklists
  /\ \A j \in AllIdx(d) : d.species[j].count \in 1..d.totalChecklists
  /\ d.totalChecklists = 0 => d.species = <<>>

\* C20: in every summary of the pipeline the counts of the species add up
\* to totalChecklists, so totalChecklists is 0 only with an empty table and
\* no count is above it; in the recommendations of the pipeline no value is
\* Infinity or NaN, no probability is above 100 percent and
\* expectedNewSpecies is at most 1.
C20_CountsSumToTotalChecklists ==
  /\ \A id \in DOMAIN results : WellCounted(results[id])
  /\ \A id \in DOMAIN speciesData : WellCounted(speciesData[id])
  /\ \A i \in RecIdx :
       LET r == recommendations[i]
           d == SummaryOf(r)
       IN stage = "recommendations" =>
            /\ NewCountSum(d) <= d.totalChecklists
            /\ Finite(r.expectedNewSpecies) /\ r.expectedNewSpecies.n <= 10
            /\ Finite(r.score)
            /\ \A p \in 1..Len(r.topNewSpecies) :
                 /\ Finite(r.topNewSpecies[p].probability)
                 /\ r.topNewSpecies[p].probability.n <= 100

\* C20, its case: a pass over a summary of two records of two new species
\* (expectedNewSpecies "1.0", each at 50 percent) and the summary of a
\* failed or empty fetch (totalChecklists 0, no species)
C20_Witness ==
  /\ stage = "recommendations"
  /\ Len(recommendations) = 2
  /\ recommendations[1].newSpeciesCount = 2
  /\ recommendations[1].expectedNewSpecies.n = 10
  /\ recommendations[1].topNewSpecies[2].probability.n = 50
  /\ SummaryOf(recommendations[2]).totalChecklists = 0
  /\ recommendations[2].expectedNewSpecies.n = 0

---------------------------------------------------------------------------
\* the summary of a hotspot whose fetch failed
EmptySummary(d) == d.species = <<>> /\ d.totalChecklists = 0

\* C21: a failed species fetch does not abort the pipeline: its hotspot
\* gets a summary with an empty table and totalChecklists = 0, error stays
\* unset and the loop goes on, to the delay and from there to the next
\* hotspot or, after the last one, to the stage "species" with every summary
\* published; in a later scoring pass the hotspot gets a recommendation
\* with newSpeciesCount 0 and score 0.
C21_FailedFetchDoesNotAbort ==
  [][/\ fetchSpeciesFailed =>
          /\ hotspots[idx].locId \in DOMAIN results'
          /\ EmptySummary(results'[hotspots[idx].locId])
          /\ \A id \in DOMAIN results : results'[id] = results[id]
          /\ error' = NoError /\ loading' /\ stage' = "hotspots"
          /\ pc' = "delay" /\ idx' = idx
     /\ pc = "fetchSpecies" =>
          /\ hotspots[idx].locId \in DOMAIN results'
          /\ error' = NoError /\ loading' /\ stage' = "hotspots"
          /\ pc' = "delay" /\ idx' = idx
     /\ pc = "delay" =>
          /\ error' = NoError
          /\ IF idx < Len(hotspots)
             THEN pc' = "fetchSpecies" /\ idx' = idx + 1 /\ results' = results
             ELSE stage' = "species" /\ speciesData' = results /\ ~loading'
     /\ stage = "recommendations" =>
          \A k \in 1..Len(hotspots) :
            EmptySummary(speciesData[hotspots[k].locId]) =>
              \E i \in RecIdx :
                LET r == recommendations[i]
                IN /\ RecsOf(hotspots[k].locId) = {i}
                   /\ r.newSpeciesCount = 0
                   /\ Finite(r.score) /\ r.score.n = 0
                   /\ Finite(r.expectedNewSpecies) /\ r.expectedNewSpecies.n = 0
                   /\ r.topNewSpecies = <<>>]_vars

\* C21, its case: a pass has run over two hotspots, the fetch for the first
\* one failed (or came back empty), the second one with a new species and a
\* score > 0: both are recommended, the first one last
C21_Witness ==
  /\ stage = "recommendations"
  /\ error = NoError
  /\ Len(hotspots) = 2
  /\ EmptySummary(speciesData[hotspots[1].locId])
  /\ speciesData[hotspots[2].locId].totalChecklists = 2
  /\ Len(recommendations) = 2
  /\ recommendations[1].hotspot = hotspots[2]
  /\ recommendations[1].score.n > 0
  /\ recommendations[2].hotspot = hotspots[1]
  /\ recommendations[2].newSpeciesCount = 0
  /\ recommendations[2].score.n = 0

---------------------------------------------------------------------------
\* C22: while stage is "recommendations" the life list is not empty and is
\* the one the stored recommendations were computed with: a pass starts
\* with a life list that is not empty and leaves it as it is, and the only
\* step out of the stage is the reset, which empties the life list, the
\* hotspots, speciesData and the recommendations and sets stage "config".
C22_LifeListOfRecommendations ==
  [][/\ stage = "recommendations" =>
          /\ userLifeList # {}
          /\ recommendations = rankedRecommendations
          /\ \A i \in RecIdx :
               recommendations[i].newSpeciesCount
                 = Cardinality(NewIdx(SummaryOf(recommendations[i])))
          /\ stage' = "config"
          /\ userLifeList' = {}
          /\ hotspots' = <<>>
          /\ speciesData' = NoResults
          /\ recommendations' = <<>>
     /\ (stage # "recommendations" /\ stage' = "recommendations") =>
          /\ userLifeList # {}
          /\ userLifeList' = userLifeList]_vars

\* C22, its case: the recommendations stage with one code on the life
\* list, and a recommendation that counts one new species of a table of two
C22_Witness ==
  /\ stage = "recommendations"
  /\ userLifeList = {"norcad"}
  /\ \E i \in RecIdx :
       /\ recommendations[i].newSpeciesCount = 1
       /\ Len(SummaryOf(recommendations[i]).species) = 2
       /\ recommendations[i].topNewSpecies[1].name = "Snowy Owl"

=============================================================================
